---- MODULE Spec2Model ----
(***************************************************************************)
(* Model of the call-notification relay of api/index.js: the POST          *)
(* /api/send-call handler (content-type check, body validation, lazy       *)
(* Firebase initialization, Firestore token lookup, FCM message            *)
(* construction, FCM send) and the process-wide firebaseReady /            *)
(* firebaseError state.                                                    *)
(*                                                                         *)
(* JavaScript runs each handler to its next `await` without interleaving,  *)
(* so every action below is one synchronous run of the handler: from the   *)
(* arrival of the request to `await initializeFirebase()`, from there to   *)
(* the `await ...get()`, from there to `await ...send(message)`, and from  *)
(* there to the end of the handler.                                        *)
(***************************************************************************)
EXTENDS Integers, Sequences, FiniteSets

\* ------------------------------------------------------------------ bounds
\* Number of request slots that can be in flight at the same time.
NumRequests == 2
\* Ceiling of the model's call counters (they saturate here).
MaxCount == 3

Requests == 1..NumRequests

Cap(n) == IF n < MaxCount THEN n + 1 ELSE MaxCount

\* ------------------------------------------------------- JavaScript values
\* A JavaScript value is its type tag and its string rendering.
JUndefined == [t |-> "undefined", v |-> "undefined"]
JNull == [t |-> "null", v |-> "null"]
JStr(s) == [t |-> "string", v |-> s]
JNum(s) == [t |-> "number", v |-> s]
JBool(b) == [t |-> "boolean", v |-> IF b THEN "true" ELSE "false"]

\* typeof x
TypeOf(x) == IF x.t = "null" THEN "object" ELSE x.t

\* ToBoolean(x): what `!x` and `x ? a : b` test.
Truthy(x) ==
    CASE x.t = "undefined" -> FALSE
      [] x.t = "null" -> FALSE
      [] x.t = "string" -> x.v # ""
      [] x.t = "number" -> x.v \notin {"0", "NaN"}
      [] x.t = "boolean" -> x.v = "true"

\* x.toString(): a property access on undefined or null throws a TypeError.
ToStringThrows(x) == x.t \in {"undefined", "null"}
ToString(x) == x.v

\* --------------------------------------------------------- header strings
\* Header values are sequences of characters, so that String.includes is
\* computed and not assumed.
AppJson ==
    <<"a","p","p","l","i","c","a","t","i","o","n","/","j","s","o","n">>
CharsetSuffix == <<";"," ","c","h","a","r","s","e","t","=","u","t","f","-","8">>
PatchSuffix == <<"-","p","a","t","c","h","+","j","s","o","n">>
TextPlain == <<"t","e","x","t","/","p","l","a","i","n">>

\* An absent header reads as undefined.
NoHeader == [present |-> FALSE, chars |-> <<>>]
Header(s) == [present |-> TRUE, chars |-> s]

\* String.prototype.includes
Includes(hay, needle) ==
    \E i \in 0..(Len(hay) - Len(needle)) :
        SubSeq(hay, i + 1, i + Len(needle)) = needle

\* The media type of a Content-Type value: the text before the parameters.
MediaType(s) ==
    IF \E i \in 1..Len(s) : s[i] = ";"
    THEN SubSeq(s, 1, (CHOOSE i \in 1..Len(s) :
                          s[i] = ";" /\ \A j \in 1..(i - 1) : s[j] # ";") - 1)
    ELSE s

\* Whether the request's content type is application/json.
IsJsonMediaType(h) == h.present /\ MediaType(h.chars) = AppJson

\* ----------------------------------------------------------- request body
EmptyBody ==
    [targetUserId |-> JUndefined, channelName |-> JUndefined,
     callerId |-> JUndefined, isVideoCall |-> JUndefined]

\* express.json(): parses the body of a request whose media type is
\* application/json, and leaves req.body = {} for any other request.
ExpressJson(h, sent) == IF IsJsonMediaType(h) THEN sent ELSE EmptyBody

\* validateCallRequest(body)
FieldError(x, msg) ==
    IF ~Truthy(x) \/ TypeOf(x) # "string" THEN <<msg>> ELSE <<>>

\* validateCallRequest that stops at the first violated field.
validateCallRequest_FirstOnly(body) ==
    IF FieldError(body.targetUserId, "e") # <<>>
    THEN FieldError(body.targetUserId, "targetUserId is required and must be a string")
    ELSE IF FieldError(body.channelName, "e") # <<>>
    THEN FieldError(body.channelName, "channelName is required and must be a string")
    ELSE FieldError(body.callerId, "callerId is required and must be a string")

validateCallRequest(body) ==
    FieldError(body.targetUserId, "targetUserId is required and must be a string")
    \o FieldError(body.channelName, "channelName is required and must be a string")
    \o FieldError(body.callerId, "callerId is required and must be a string")

\* `!contentType || !contentType.includes('application/json')`
ContentTypeRejected(h) ==
    ~h.present \/ h.chars = <<>> \/ ~Includes(h.chars, AppJson)

\* Lines 92-111 with the `return` of the validation branch missing.
Precheck_NoValidationReturn(h, body) ==
    IF ContentTypeRejected(h) THEN "unsupported" ELSE "proceed"

\* Outcome of lines 92-111: where the handler stops before initialization.
Precheck(h, body) ==
    IF ContentTypeRejected(h) THEN "unsupported"
    ELSE IF Len(validateCallRequest(body)) > 0 THEN "invalid"
    ELSE "proceed"

\* `const { ..., isVideoCall = false } = req.body`: the default applies to
\* undefined only.
IsVideoCallOf(body) ==
    IF body.isVideoCall.t = "undefined" THEN JBool(FALSE) ELSE body.isVideoCall

\* ------------------------------------------------------------- responses
UnsupportedMediaType ==
    [status |-> 415,
     body |-> [error |-> "Unsupported Media Type",
               message |-> "Content-Type must be application/json"]]

BadRequest(errs) ==
    [status |-> 400,
     body |-> [error |-> "Bad Request", message |-> "Invalid request body",
               details |-> errs]]

ServerConfigurationError ==
    [status |-> 500,
     body |-> [error |-> "Server Configuration Error",
               message |-> "Server not ready: Firebase Admin SDK initialization failed"]]

TargetNotFound ==
    [status |-> 404, body |-> [error |-> "Target user not found"]]

TargetHasNoToken ==
    [status |-> 400,
     body |-> [error |-> "Target user has no FCM token or is not registered for push notifications"]]

DatabaseError ==
    [status |-> 500,
     body |-> [error |-> "Database Error",
               message |-> "Failed to retrieve user information"]]

InvalidToken ==
    [status |-> 400,
     body |-> [error |-> "Invalid Token",
               message |-> "The provided FCM token is invalid or not registered. The user may have uninstalled the app."]]

NotificationServiceError ==
    [status |-> 503,
     body |-> [error |-> "Notification Service Error",
               message |-> "Failed to send notification via FCM. Please try again later."]]

Sent(id) ==
    [status |-> 200,
     body |-> [success |-> TRUE, messageId |-> id,
               details |-> "Call notification sent via FCM HTTP v1 API"]]

\* The response of the global error handler middleware, which Express runs
\* for an error passed to next(err) or thrown synchronously by a handler.
InternalServerError ==
    [status |-> 500,
     body |-> [error |-> "Internal Server Error",
               message |-> "An unexpected error occurred on the server."]]

\* ------------------------------------------------ gateway client lifecycle
NoError == "null"

\* process.env.FIREBASE_SERVICE_ACCOUNT_KEY: unset (or empty), not JSON,
\* JSON that admin.credential.cert refuses, or a service account; and
\* whether Application Default Credentials exist on the host.
Environments ==
    {[key |-> "valid", adc |-> FALSE], [key |-> "malformed", adc |-> FALSE],
     [key |-> "badcert", adc |-> FALSE], [key |-> "absent", adc |-> TRUE],
     [key |-> "absent", adc |-> FALSE]}

\* The credential the initialized app holds can authenticate. A default
\* initializeApp() builds its credential lazily and does not throw when the
\* host has none: the first call that needs a token fails instead.
CredentialUsable(e) == e.key = "valid" \/ (e.key = "absent" /\ e.adc)

\* initializeFirebase(), on the process state (ready, err, apps) and the
\* environment e. parses / inits: the JSON.parse and admin.initializeApp
\* statements this call executed.
InitResult(ready, err, apps, parses, inits, settled) ==
    [firebaseReady |-> ready, firebaseError |-> err, apps |-> apps,
     parses |-> parses, inits |-> inits, settled |-> settled]

\* initializeFirebase() without line 35: a cached failure is not returned
\* and the initialization is attempted again.
initializeFirebase_NoErrorCache(ready, err, apps, e) ==
    IF ready THEN InitResult(ready, err, apps, 0, 0, "resolved")
    ELSE IF e.key # "absent" THEN
        IF e.key = "malformed"
        THEN InitResult(ready, "SyntaxError", apps, 1, 0, "rejected")
        ELSE IF apps = 0 THEN
            IF e.key = "badcert"
            THEN InitResult(ready, "FirebaseAppError", apps, 1, 1, "rejected")
            ELSE InitResult(TRUE, err, apps + 1, 1, 1, "resolved")
        ELSE InitResult(TRUE, err, apps, 1, 0, "resolved")
    ELSE IF apps = 0 THEN InitResult(TRUE, err, apps + 1, 0, 1, "resolved")
    ELSE InitResult(TRUE, err, apps, 0, 0, "resolved")

\* initializeFirebase() without its guards (lines 34, 35, 46, 56): every
\* call initializes, and a second admin.initializeApp throws duplicate-app.
initializeFirebase_Unguarded(ready, err, apps, e) ==
    IF e.key = "malformed"
    THEN InitResult(ready, "SyntaxError", apps, 1, 0, "rejected")
    ELSE IF e.key = "badcert"
    THEN InitResult(ready, "FirebaseAppError", apps, 1, 1, "rejected")
    ELSE IF apps = 0
    THEN InitResult(TRUE, err, apps + 1, IF e.key = "absent" THEN 0 ELSE 1, 1,
                    "resolved")
    ELSE InitResult(ready, "FirebaseAppError: duplicate-app", apps,
                    IF e.key = "absent" THEN 0 ELSE 1, 1, "rejected")

\* initializeFirebase() with `firebaseReady = true` moved ahead of the try
\* block: a failed attempt leaves the flag set next to the stored error.
initializeFirebase_ReadyFirst(ready, err, apps, e) ==
    IF ready THEN InitResult(ready, err, apps, 0, 0, "resolved")
    ELSE IF err # NoError THEN InitResult(ready, err, apps, 0, 0, "rejected")
    ELSE IF e.key # "absent" THEN
        IF e.key = "malformed"
        THEN InitResult(TRUE, "SyntaxError", apps, 1, 0, "rejected")
        ELSE IF apps = 0 THEN
            IF e.key = "badcert"
            THEN InitResult(TRUE, "FirebaseAppError", apps, 1, 1, "rejected")
            ELSE InitResult(TRUE, err, apps + 1, 1, 1, "resolved")
        ELSE InitResult(TRUE, err, apps, 1, 0, "resolved")
    ELSE IF apps = 0 THEN InitResult(TRUE, err, apps + 1, 0, 1, "resolved")
    ELSE InitResult(TRUE, err, apps, 0, 0, "resolved")

initializeFirebase(ready, err, apps, e) ==
    IF ready THEN InitResult(ready, err, apps, 0, 0, "resolved")
    ELSE IF err # NoError THEN InitResult(ready, err, apps, 0, 0, "rejected")
    ELSE IF e.key # "absent" THEN
        IF e.key = "malformed"
        THEN InitResult(ready, "SyntaxError", apps, 1, 0, "rejected")
        ELSE IF apps = 0 THEN
            IF e.key = "badcert"
            THEN InitResult(ready, "FirebaseAppError", apps, 1, 1, "rejected")
            ELSE InitResult(TRUE, err, apps + 1, 1, 1, "resolved")
        ELSE InitResult(TRUE, err, apps, 1, 0, "resolved")
    ELSE IF apps = 0 THEN InitResult(TRUE, err, apps + 1, 0, 1, "resolved")
    ELSE InitResult(TRUE, err, apps, 0, 0, "resolved")

\* ----------------------------------------------------------- token resolver
\* The 'users' collection of the record store.
users ==
    [id \in {"u1", "u3", "u4"} |->
        CASE id = "u1" -> [fcmToken |-> JStr("tok123")]
          [] id = "u3" -> [fcmToken |-> JStr("")]
          [] id = "u4" -> [fcmToken |-> JUndefined]]

\* What a failing lookup throws: the store's own error codes.
StoreErrors == {"UNAVAILABLE", "PERMISSION_DENIED", "UNAUTHENTICATED"}

NoDoc == [kind |-> "none", fcmToken |-> JUndefined, error |-> ""]
ThrownDoc(e) == [kind |-> "thrown", fcmToken |-> JUndefined, error |-> e]

\* admin.firestore().collection('users').doc(id).get(), when it resolves.
GetDoc(id) ==
    IF id \in DOMAIN users
    THEN [kind |-> "found", fcmToken |-> users[id].fcmToken, error |-> ""]
    ELSE [kind |-> "missing", fcmToken |-> JUndefined, error |-> ""]

\* The lookup stage without the `!userDoc.exists` branch (lines 135-138).
resolveToken_NoExistsCheck(doc) ==
    IF doc.kind = "thrown" THEN "StoreError"
    ELSE IF ~Truthy(doc.fcmToken) THEN "NoToken"
    ELSE "Token"

\* The lookup stage testing `fcmToken === undefined` instead of `!fcmToken`.
resolveToken_UndefinedOnly(doc) ==
    IF doc.kind = "thrown" THEN "StoreError"
    ELSE IF doc.kind = "missing" THEN "NotFound"
    ELSE IF doc.fcmToken.t = "undefined" THEN "NoToken"
    ELSE "Token"

\* Lines 131-154: the outcome of the lookup stage.
resolveToken(doc) ==
    IF doc.kind = "thrown" THEN "StoreError"
    ELSE IF doc.kind = "missing" THEN "NotFound"
    ELSE IF ~Truthy(doc.fcmToken) THEN "NoToken"
    ELSE "Token"

\* The catch block of lines 148-154 passing the store's error on to the
\* caller.
ResolveResponse_LeakError(doc) ==
    CASE resolveToken(doc) = "StoreError" ->
            [status |-> 500,
             body |-> [error |-> "Database Error", message |-> doc.error]]
      [] resolveToken(doc) = "NotFound" -> TargetNotFound
      [] resolveToken(doc) = "NoToken" -> TargetHasNoToken

\* The response of the lookup stage when it ends the request.
ResolveResponse(doc) ==
    CASE resolveToken(doc) = "StoreError" -> DatabaseError
      [] resolveToken(doc) = "NotFound" -> TargetNotFound
      [] resolveToken(doc) = "NoToken" -> TargetHasNoToken

\* ----------------------------------------------------------- message builder
Variants == {"api/index.js", "unnamed/part_000"}

Title == "Vkhodyashchiy zvonok"
BodyText(isVideoCall) == IF Truthy(isVideoCall) THEN "Videovyzov" ELSE "Audiovyzov"

NoMessage == [token |-> ""]

\* `isVideoCall.toString()` is the one expression of the construction that
\* can throw.
BuildThrows(body) == ToStringThrows(IsVideoCallOf(body))

\* The message with the channel and caller data fields exchanged.
buildMessage_Swapped(variant, body, token) ==
    [token |-> token,
     data |-> [type |-> "call",
               channel_name |-> body.callerId.v,
               caller_id |-> body.channelName.v,
               is_video |-> ToString(IsVideoCallOf(body))],
     notification |-> [title |-> Title, body |-> BodyText(IsVideoCallOf(body))],
     android |-> [priority |-> "high", notification |-> [channelId |-> "calls"]],
     apns |-> [payload |-> [aps |-> [contentAvailable |-> 1, mutableContent |-> 1]]]]

\* The message object of lines 157-186; the timestamp data field (the
\* clock at construction) is left out.
buildMessage(variant, body, token) ==
    [token |-> token,
     data |-> [type |-> "call",
               channel_name |-> body.channelName.v,
               caller_id |-> body.callerId.v,
               is_video |-> ToString(IsVideoCallOf(body))],
     notification |-> [title |-> Title, body |-> BodyText(IsVideoCallOf(body))],
     android |->
        IF variant = "api/index.js"
        THEN [priority |-> "high", notification |-> [channelId |-> "calls"]]
        ELSE [priority |-> "high",
              notification |-> [channelId |-> "calls", sound |-> "default"]],
     apns |->
        IF variant = "api/index.js"
        THEN [payload |-> [aps |-> [contentAvailable |-> 1, mutableContent |-> 1]]]
        ELSE [payload |-> [aps |-> [contentAvailable |-> 1, mutableContent |-> 1,
                                    alert |-> [title |-> Title,
                                               body |-> BodyText(IsVideoCallOf(body))]]]]]

\* --------------------------------------------------------------- dispatcher
MessageIds == {"projects/p/messages/1", "projects/p/messages/2"}
TokenInvalidCodes ==
    {"messaging/invalid-registration-token",
     "messaging/registration-token-not-registered"}
SendErrorCodes ==
    TokenInvalidCodes \cup {"messaging/internal-error", "app/invalid-credential"}

NoSend == [kind |-> "none", v |-> ""]
SendOk(id) == [kind |-> "ok", v |-> id]
SendError(code) == [kind |-> "error", v |-> code]

\* The send stage testing only the first of the two token codes.
dispatchResponse_OneCode(result) ==
    IF result.kind = "ok" THEN Sent(result.v)
    ELSE IF result.v = "messaging/invalid-registration-token" THEN InvalidToken
    ELSE NotificationServiceError

\* Lines 191-216: the response for the settled send.
dispatchResponse(result) ==
    IF result.kind = "ok" THEN Sent(result.v)
    ELSE IF result.v = "messaging/invalid-registration-token"
            \/ result.v = "messaging/registration-token-not-registered"
         THEN InvalidToken
    ELSE NotificationServiceError

\* How many times x occurs in seq.
Occurrences(seq, x) == Cardinality({i \in 1..Len(seq) : seq[i] = x})

\* ------------------------------------------------------------------ state
VARIABLES
    firebaseReady,      \* let firebaseReady
    firebaseError,      \* let firebaseError (NoError is null)
    apps,               \* admin.apps.length
    env,                \* the credential configuration of the process
    variant,            \* which source variant of the handler is deployed
    parseCalls,         \* JSON.parse(serviceAccountRaw) executions so far
    initializeAppCalls, \* admin.initializeApp(...) executions so far
    pc,                 \* where each request's handler is suspended
    req,                \* each request: content-type header and body
    initResult,         \* how `await initializeFirebase()` settled
    userDoc,            \* what the store lookup returned
    message,            \* the message handed to the gateway
    sendResult,         \* how the gateway send settled
    responses,          \* the responses emitted on `res`, in order
    cancelled,          \* whether the host has cancelled the request
    trace               \* the stages the handler executed, in order

vars ==
    <<firebaseReady, firebaseError, apps, env, variant, parseCalls,
      initializeAppCalls, pc, req, initResult, userDoc, message, sendResult,
      responses, cancelled, trace>>

globals == <<firebaseReady, firebaseError, apps, parseCalls, initializeAppCalls>>

NoRequest == [contentType |-> NoHeader, sent |-> EmptyBody, body |-> EmptyBody]

\* The requests of the concurrent specification: one per path of the
\* pipeline.
CallBody(target, video) ==
    [targetUserId |-> target, channelName |-> JStr("ch1"),
     callerId |-> JStr("u2"), isVideoCall |-> video]

CoreRequests ==
    {[contentType |-> Header(AppJson), sent |-> CallBody(JStr(id), JUndefined)] :
        id \in {"u1", "u3", "u4", "ghost"}}
    \cup {[contentType |-> Header(AppJson), sent |-> CallBody(JStr("u1"), v)] :
        v \in {JBool(TRUE), JNull}}
    \cup {[contentType |-> Header(AppJson), sent |-> CallBody(JUndefined, JUndefined)],
          [contentType |-> Header(TextPlain), sent |-> CallBody(JStr("u1"), JUndefined)]}

\* The requests of the single-request specification: every combination of
\* header and field shapes.
HeaderValues ==
    {NoHeader, Header(<<>>), Header(AppJson), Header(AppJson \o CharsetSuffix),
     Header(AppJson \o PatchSuffix), Header(TextPlain)}

AllRequests ==
    {[contentType |-> h,
      sent |-> [targetUserId |-> t, channelName |-> c, callerId |-> k,
                isVideoCall |-> v]] :
        h \in HeaderValues,
        t \in {JUndefined, JNull, JStr(""), JStr("u1"), JNum("7")},
        c \in {JUndefined, JStr(""), JStr("ch1"), JNum("0")},
        k \in {JUndefined, JStr(""), JStr("u2"), JBool(TRUE)},
        v \in {JUndefined, JBool(TRUE), JBool(FALSE), JStr("yes"), JNull}}

Init ==
    /\ firebaseReady = FALSE
    /\ firebaseError = NoError
    /\ apps = 0
    /\ env \in Environments
    /\ variant \in Variants
    /\ parseCalls = 0
    /\ initializeAppCalls = 0
    /\ pc = [r \in Requests |-> "idle"]
    /\ req = [r \in Requests |-> NoRequest]
    /\ initResult = [r \in Requests |-> "none"]
    /\ userDoc = [r \in Requests |-> NoDoc]
    /\ message = [r \in Requests |-> NoMessage]
    /\ sendResult = [r \in Requests |-> NoSend]
    /\ responses = [r \in Requests |-> <<>>]
    /\ cancelled = [r \in Requests |-> FALSE]
    /\ trace = [r \in Requests |-> <<>>]

\* res.status(..).json(..) ends the handler with `return`.
Respond(r, response, stages) ==
    /\ responses' = [responses EXCEPT ![r] = Append(@, response)]
    /\ trace' = [trace EXCEPT ![r] = @ \o stages \o <<"respond">>]
    /\ pc' = [pc EXCEPT ![r] = "done"]

\* Lines 89-118: the request arrives; content-type check, body validation
\* and the call of initializeFirebase() run without suspension.
Receive(r, q) ==
    /\ pc[r] = "idle"
    /\ LET body == ExpressJson(q.contentType, q.sent)
           stop == Precheck(q.contentType, body)
           init == initializeFirebase(firebaseReady, firebaseError, apps, env)
       IN /\ req' = [req EXCEPT ![r] =
                        [contentType |-> q.contentType, sent |-> q.sent, body |-> body]]
          /\ IF stop = "unsupported" THEN
                /\ Respond(r, UnsupportedMediaType, <<"contentType">>)
                /\ UNCHANGED <<globals, initResult>>
             ELSE IF stop = "invalid" THEN
                /\ Respond(r, BadRequest(validateCallRequest(body)),
                           <<"contentType", "validate">>)
                /\ UNCHANGED <<globals, initResult>>
             ELSE
                /\ firebaseReady' = init.firebaseReady
                /\ firebaseError' = init.firebaseError
                /\ apps' = init.apps
                /\ parseCalls' = IF init.parses > 0 THEN Cap(parseCalls) ELSE parseCalls
                /\ initializeAppCalls' =
                      IF init.inits > 0 THEN Cap(initializeAppCalls)
                      ELSE initializeAppCalls
                /\ initResult' = [initResult EXCEPT ![r] = init.settled]
                /\ trace' = [trace EXCEPT ![r] = <<"contentType", "validate", "init">>]
                /\ pc' = [pc EXCEPT ![r] = "awaitInit"]
                /\ UNCHANGED responses
    /\ UNCHANGED <<env, variant, cancelled, userDoc, message, sendResult>>

\* Lines 118-133: the awaited initialization settles; on success the store
\* lookup is issued.
AfterInit(r) ==
    /\ pc[r] = "awaitInit"
    /\ IF initResult[r] = "rejected" THEN
          Respond(r, ServerConfigurationError, <<>>)
       ELSE
          /\ trace' = [trace EXCEPT ![r] = Append(@, "lookup")]
          /\ pc' = [pc EXCEPT ![r] = "awaitGet"]
          /\ UNCHANGED responses
    /\ UNCHANGED <<globals, env, variant, cancelled, req, initResult, userDoc, message, sendResult>>

\* What the pending get() can settle to.
LookupOutcomes(id) ==
    IF CredentialUsable(env)
    THEN {ThrownDoc(e) : e \in StoreErrors \ {"UNAUTHENTICATED"}} \cup {GetDoc(id)}
    ELSE {ThrownDoc("UNAUTHENTICATED")}

\* Lines 133-192: the lookup settles; the token is extracted, the message
\* is built and the send is issued.
GetResolves(r) ==
    /\ pc[r] = "awaitGet"
    /\ \E doc \in LookupOutcomes(req[r].body.targetUserId.v) :
          /\ userDoc' = [userDoc EXCEPT ![r] = doc]
          /\ IF resolveToken(doc) # "Token" THEN
                /\ Respond(r, ResolveResponse(doc), <<>>)
                /\ UNCHANGED message
             ELSE IF BuildThrows(req[r].body) THEN
                \* The TypeError rejects the async handler's promise. The
                \* app is an Express 4 app (the '*' route of line 220 is
                \* not a valid Express 5 path; see also lines 230-231),
                \* which does not observe the rejection: the global error
                \* handler is not run and nothing is written to `res`.
                /\ trace' = [trace EXCEPT ![r] = Append(@, "build")]
                /\ pc' = [pc EXCEPT ![r] = "rejected"]
                /\ UNCHANGED <<message, responses>>
             ELSE
                /\ message' = [message EXCEPT ![r] =
                        buildMessage(variant, req[r].body, doc.fcmToken.v)]
                /\ trace' = [trace EXCEPT ![r] = @ \o <<"build", "send">>]
                /\ pc' = [pc EXCEPT ![r] = "awaitSend"]
                /\ UNCHANGED responses
    /\ UNCHANGED <<globals, env, variant, cancelled, req, initResult, sendResult>>

SendOutcomes ==
    {SendOk(id) : id \in MessageIds} \cup {SendError(c) : c \in SendErrorCodes}

\* The send stage with a retry: a failed send is issued again.
SendResolves_Retry(r) ==
    /\ pc[r] = "awaitSend"
    /\ \E result \in SendOutcomes :
          /\ sendResult' = [sendResult EXCEPT ![r] = result]
          /\ IF result.kind = "error" /\ Occurrences(trace[r], "send") < 2 THEN
                /\ trace' = [trace EXCEPT ![r] = Append(@, "send")]
                /\ UNCHANGED <<pc, responses>>
             ELSE Respond(r, dispatchResponse(result), <<>>)
    /\ UNCHANGED <<globals, env, variant, cancelled, req, initResult, userDoc, message>>

\* The catch block of lines 200-215 without its `else`: a token error is
\* answered 400 and then 503.
SendResolves_NoElse(r) ==
    /\ pc[r] = "awaitSend"
    /\ \E result \in SendOutcomes :
          /\ sendResult' = [sendResult EXCEPT ![r] = result]
          /\ IF result.kind = "error" /\ result.v \in TokenInvalidCodes THEN
                /\ responses' = [responses EXCEPT ![r] =
                        @ \o <<InvalidToken, NotificationServiceError>>]
                /\ trace' = [trace EXCEPT ![r] = @ \o <<"respond", "respond">>]
                /\ pc' = [pc EXCEPT ![r] = "done"]
             ELSE Respond(r, dispatchResponse(result), <<>>)
    /\ UNCHANGED <<globals, env, variant, cancelled, req, initResult, userDoc, message>>

\* Lines 192-216: the send settles and the handler responds.
SendResolves(r) ==
    /\ pc[r] = "awaitSend"
    /\ \E result \in SendOutcomes :
          /\ sendResult' = [sendResult EXCEPT ![r] = result]
          /\ Respond(r, dispatchResponse(result), <<>>)
    /\ UNCHANGED <<globals, env, variant, cancelled, req, initResult, userDoc, message>>

\* The host cancels the request (the client went away, or the host's
\* deadline passed) while the handler is suspended on the store or on the
\* gateway. The handler registers no listener for it and is resumed as
\* usual when the pending call settles. No handler reads the flag, so the
\* step is part of the single-request specification only.
Cancel(r) ==
    /\ pc[r] \in {"awaitGet", "awaitSend"}
    /\ ~cancelled[r]
    /\ cancelled' = [cancelled EXCEPT ![r] = TRUE]
    /\ UNCHANGED <<globals, env, variant, pc, req, initResult, userDoc, message,
                   sendResult, responses, trace>>

\* The request object is discarded once its handler has ended.
Retire(r) ==
    /\ pc[r] \in {"done", "rejected"}
    /\ pc' = [pc EXCEPT ![r] = "idle"]
    /\ req' = [req EXCEPT ![r] = NoRequest]
    /\ initResult' = [initResult EXCEPT ![r] = "none"]
    /\ userDoc' = [userDoc EXCEPT ![r] = NoDoc]
    /\ message' = [message EXCEPT ![r] = NoMessage]
    /\ sendResult' = [sendResult EXCEPT ![r] = NoSend]
    /\ responses' = [responses EXCEPT ![r] = <<>>]
    /\ cancelled' = [cancelled EXCEPT ![r] = FALSE]
    /\ trace' = [trace EXCEPT ![r] = <<>>]
    /\ UNCHANGED <<globals, env, variant>>

Arrive(r) == \E q \in CoreRequests : Receive(r, q)

Next ==
    \E r \in Requests :
        \/ Arrive(r)
        \/ AfterInit(r)
        \/ GetResolves(r)
        \/ SendResolves(r)
        \/ Retire(r)

Spec == Init /\ [][Next]_vars

\* One request at a time, over every header and body shape, with the
\* host free to cancel it.
ArriveAny == \E q \in AllRequests : Receive(1, q)

NextBodies ==
    \/ ArriveAny
    \/ AfterInit(1)
    \/ GetResolves(1)
    \/ SendResolves(1)
    \/ Cancel(1)
    \/ Retire(1)

SpecBodies == Init /\ [][NextBodies]_vars

\* ------------------------------------------------------------------ claims
Finished(r) == pc[r] \in {"done", "rejected"}
InTrace(r, stage) == \E i \in 1..Len(trace[r]) : trace[r][i] = stage

\* C1: once an initialization attempt has failed, every request that
\* reaches the initialization stage is rejected there, gets the 500
\* init-failure response without reaching the store, and no JSON.parse or
\* admin.initializeApp beyond those of the failed attempt is executed.
C1_InitFailureCached ==
    firebaseError # NoError =>
        /\ parseCalls = 1
        /\ initializeAppCalls = (IF env.key = "badcert" THEN 1 ELSE 0)
        /\ \A r \in Requests :
              initResult[r] # "none" =>
                  /\ initResult[r] = "rejected"
                  /\ ~InTrace(r, "lookup")
                  /\ pc[r] \in {"awaitInit", "done"}
                  /\ pc[r] = "done" => responses[r] = <<ServerConfigurationError>>

\* Two requests answered 500 after the credential failed to parse.
C1_Witness ==
    /\ env.key = "malformed"
    /\ firebaseError = "SyntaxError"
    /\ \A r \in {1, 2} :
          pc[r] = "done" /\ responses[r] = <<ServerConfigurationError>>

\* C2: the gateway state only leaves Uninitialized: a Ready state stays
\* Ready with no failure stored, and a Failed state stays Failed with the
\* same cause.
C2_TerminalStable ==
    [][/\ (firebaseReady /\ firebaseError = NoError) =>
              (firebaseReady' /\ firebaseError' = NoError)
       /\ firebaseError # NoError =>
              (firebaseError' = firebaseError /\ firebaseReady' = firebaseReady)]_vars

\* Every slot holds a request that ran the initialization stage in the
\* Ready state and is past it.
C2_Witness ==
    /\ firebaseReady
    /\ \A r \in {1, 2} : initResult[r] = "resolved" /\ InTrace(r, "lookup")

\* C3: admin.initializeApp is executed at most once whatever the
\* interleaving, and every request past the initialization stage observed
\* the one terminal state the process is in.
C3_SingleInitialization ==
    /\ initializeAppCalls <= 1
    /\ apps <= 1
    /\ \A r \in Requests :
          /\ initResult[r] = "resolved" => (firebaseReady /\ firebaseError = NoError)
          /\ initResult[r] = "rejected" => (~firebaseReady /\ firebaseError # NoError)

\* Two requests raced on a cold start and are both suspended on the
\* initialization, which initialized the app once.
C3_Witness ==
    /\ pc[1] = "awaitInit" /\ pc[2] = "awaitInit"
    /\ initializeAppCalls = 1
    /\ initResult[1] = "resolved" /\ initResult[2] = "resolved"

\* C4: the stages run in order and short-circuit: the lookup runs only
\* after a validation without errors and a successful initialization, the
\* send only after the lookup returned a non-empty token, and a response
\* is the last thing a handler does.
StageOrder == <<"contentType", "validate", "init", "lookup", "build", "send">>
StagesOf(r) == SelectSeq(trace[r], LAMBDA s : s # "respond")

C4_StagesInOrder ==
    \A r \in Requests :
        /\ \E n \in 0..Len(StageOrder) : StagesOf(r) = SubSeq(StageOrder, 1, n)
        /\ InTrace(r, "lookup") =>
              /\ ~ContentTypeRejected(req[r].contentType)
              /\ validateCallRequest(req[r].body) = <<>>
              /\ initResult[r] = "resolved"
        /\ InTrace(r, "send") =>
              /\ userDoc[r].kind = "found"
              /\ userDoc[r].fcmToken.t = "string" /\ userDoc[r].fcmToken.v # ""
        /\ InTrace(r, "respond") =>
              /\ trace[r][Len(trace[r])] = "respond"
              /\ Occurrences(trace[r], "respond") = 1
              /\ pc[r] = "done"
        /\ (responses[r] # <<>> /\ responses[r][1].status # 200) =>
              ~InTrace(r, "send") \/ sendResult[r].kind = "error"

\* A request stopped at the lookup stage, and another at validation.
C4_Witness ==
    \E r1, r2 \in Requests :
        /\ trace[r1] = <<"contentType", "validate", "init", "lookup", "respond">>
        /\ responses[r1] = <<TargetHasNoToken>>
        /\ trace[r2] = <<"contentType", "validate", "respond">>

\* C5: every request whose handler has ended was answered exactly once.
C5_ExactlyOneResponse ==
    \A r \in Requests : Finished(r) => Len(responses[r]) = 1

\* C6: the validator reports exactly the violated fields, once each, and a
\* request with violated fields is answered 400 with as many details.
RequiredFields == {"targetUserId", "channelName", "callerId"}
FieldMessage(f) == f \o " is required and must be a string"
FieldViolated(x) == x.t # "string" \/ x.v = ""
ViolatedFields(body) == {f \in RequiredFields : FieldViolated(body[f])}

C6_AllViolationsReported ==
    \A r \in Requests :
        InTrace(r, "validate") =>
            LET errs == validateCallRequest(req[r].body)
                bad == ViolatedFields(req[r].body)
            IN /\ \A f \in RequiredFields :
                      Occurrences(errs, FieldMessage(f)) = (IF f \in bad THEN 1 ELSE 0)
               /\ Len(errs) = Cardinality(bad)
               /\ bad # {} =>
                      /\ pc[r] = "done"
                      /\ Len(responses[r]) = 1
                      /\ responses[r][1].status = 400
                      /\ responses[r][1].body.details = errs
                      /\ Len(responses[r][1].body.details) = Cardinality(bad)

\* A request with two violated fields, one of them not the first.
C6_Witness ==
    /\ pc[1] = "done"
    /\ ViolatedFields(req[1].body) = {"channelName", "callerId"}
    /\ req[1].body.callerId.t = "boolean"
    /\ Len(responses[1][1].body.details) = 2

\* C7: a request whose content type is not application/json is answered
\* 415 at the content-type check, before any other stage.
C7_NonJsonYields415 ==
    \A r \in Requests :
        (pc[r] # "idle" /\ ~IsJsonMediaType(req[r].contentType)) =>
            /\ responses[r] = <<UnsupportedMediaType>>
            /\ trace[r] = <<"contentType", "respond">>

\* C8: a lookup that finds no record is answered 404 and nothing is sent.
C8_NotFoundNoSend ==
    \A r \in Requests :
        userDoc[r].kind = "missing" =>
            /\ pc[r] = "done"
            /\ Len(responses[r]) = 1
            /\ responses[r][1].status = 404
            /\ ~InTrace(r, "send")
            /\ message[r] = NoMessage
            /\ sendResult[r] = NoSend

C8_Witness ==
    \E r \in Requests :
        /\ req[r].body.targetUserId = JStr("ghost")
        /\ userDoc[r].kind = "missing"
        /\ pc[r] = "done"

\* C9: a record without a push token, or with an empty one, is answered
\* 400 and nothing is sent.
C9_NoTokenNoSend ==
    \A r \in Requests :
        (userDoc[r].kind = "found"
            /\ (userDoc[r].fcmToken.t = "undefined" \/ userDoc[r].fcmToken = JStr(""))) =>
            /\ pc[r] = "done"
            /\ Len(responses[r]) = 1
            /\ responses[r][1].status = 400
            /\ ~InTrace(r, "send")
            /\ message[r] = NoMessage
            /\ sendResult[r] = NoSend

\* One request found an empty token and another a record without one.
C9_Witness ==
    \E r1, r2 \in Requests :
        /\ userDoc[r1].kind = "found" /\ userDoc[r1].fcmToken = JStr("")
        /\ userDoc[r2].kind = "found" /\ userDoc[r2].fcmToken.t = "undefined"
        /\ pc[r1] = "done" /\ pc[r2] = "done"

\* C10: a send failure with one of the two token codes is answered 400
\* Invalid Token, any other send failure 503, and a success 200 with the
\* message id the gateway returned.
C10_DispatchMapping ==
    \A r \in Requests :
        sendResult[r].kind # "none" =>
            /\ Len(responses[r]) = 1
            /\ (sendResult[r].kind = "error" /\ sendResult[r].v \in TokenInvalidCodes) =>
                  /\ responses[r][1].status = 400
                  /\ responses[r][1].body.error = "Invalid Token"
            /\ (sendResult[r].kind = "error" /\ sendResult[r].v \notin TokenInvalidCodes) =>
                  responses[r][1].status = 503
            /\ sendResult[r].kind = "ok" =>
                  /\ responses[r][1].status = 200
                  /\ responses[r][1].body.success = TRUE
                  /\ responses[r][1].body.messageId = sendResult[r].v

\* A send rejected for an unregistered token next to a successful one.
C10_Witness ==
    \E r1, r2 \in Requests :
        /\ sendResult[r1] = SendError("messaging/registration-token-not-registered")
        /\ responses[r1] = <<InvalidToken>>
        /\ sendResult[r2].kind = "ok" /\ responses[r2][1].status = 200


\* C11: nothing is retried: whatever the store and the gateway answer, a
\* request issues at most one store lookup and at most one gateway send,
\* and a request that was answered after a collaborator failure issued
\* exactly the one call that failed.
C11_NoRetry ==
    \A r \in Requests :
        /\ Occurrences(trace[r], "lookup") <= 1
        /\ Occurrences(trace[r], "send") <= 1
        /\ userDoc[r].kind # "none" => Occurrences(trace[r], "lookup") = 1
        /\ sendResult[r].kind # "none" =>
              (Occurrences(trace[r], "send") = 1 /\ pc[r] = "done")

\* One request answered after a store error, another after a gateway
\* error that is not a token error.
C11_Witness ==
    \E r1, r2 \in Requests :
        /\ userDoc[r1].kind = "thrown" /\ responses[r1] = <<DatabaseError>>
        /\ sendResult[r2] = SendError("messaging/internal-error")
        /\ responses[r2] = <<NotificationServiceError>>


\* C12: a successful send was issued exactly once, with a message whose
\* token is the stored token of the target and whose channel_name and
\* caller_id are the request's channelName and callerId, and is answered
\* 200 with success true and the message id the gateway returned.
C12_EndToEndSuccess ==
    \A r \in Requests :
        sendResult[r].kind = "ok" =>
            /\ Occurrences(trace[r], "send") = 1
            /\ req[r].body.targetUserId.v \in DOMAIN users
            /\ message[r].token = users[req[r].body.targetUserId.v].fcmToken.v
            /\ message[r].token # ""
            /\ message[r].data.channel_name = req[r].body.channelName.v
            /\ message[r].data.caller_id = req[r].body.callerId.v
            /\ Len(responses[r]) = 1
            /\ responses[r][1].status = 200
            /\ responses[r][1].body.success = TRUE
            /\ responses[r][1].body.messageId = sendResult[r].v

\* The scenario of the specification: u2 calls u1 on ch1, u1 holds tok123.
C12_Witness ==
    \E r \in Requests :
        /\ req[r].body.targetUserId = JStr("u1")
        /\ req[r].body.isVideoCall = JUndefined
        /\ message[r].token = "tok123"
        /\ message[r].data.channel_name = "ch1"
        /\ message[r].data.caller_id = "u2"
        /\ message[r].data.is_video = "false"
        /\ sendResult[r] = SendOk("projects/p/messages/2")
        /\ responses[r][1].body.messageId = "projects/p/messages/2"


\* C13: in every message that was built, an absent isVideoCall gives
\* is_video "false" and the audio body text, isVideoCall true gives "true"
\* and the video body text, and is_video is "true" or "false" and nothing
\* else.
C13_IsVideoTrueOrFalse ==
    \A r \in Requests :
        message[r] # NoMessage =>
            /\ req[r].body.isVideoCall = JUndefined =>
                  /\ message[r].data.is_video = "false"
                  /\ message[r].notification.body = "Audiovyzov"
            /\ req[r].body.isVideoCall = JBool(TRUE) =>
                  /\ message[r].data.is_video = "true"
                  /\ message[r].notification.body = "Videovyzov"
            /\ message[r].data.is_video \in {"true", "false"}


\* C14: a request whose handler ended by an exception that no stage
\* handler caught was answered with the unhandled-exception response, 500
\* {error, message}.
C14_EscapedExceptionYields500 ==
    \A r \in Requests :
        pc[r] = "rejected" => responses[r] = <<InternalServerError>>


\* C15: a lookup that threw is answered 500 with the fixed Database Error
\* body, in which nothing of the store's error appears, and nothing is
\* sent.
C15_StoreErrorWrapped ==
    \A r \in Requests :
        userDoc[r].kind = "thrown" =>
            /\ pc[r] = "done"
            /\ Len(responses[r]) = 1
            /\ responses[r][1].status = 500
            /\ responses[r][1].body =
                  [error |-> "Database Error",
                   message |-> "Failed to retrieve user information"]
            /\ \A f \in DOMAIN responses[r][1].body :
                  responses[r][1].body[f] # userDoc[r].error
            /\ ~InTrace(r, "send")
            /\ message[r] = NoMessage
            /\ sendResult[r] = NoSend

\* Two lookups failed with different store errors and got the same answer.
C15_Witness ==
    /\ userDoc[1] = ThrownDoc("UNAVAILABLE")
    /\ userDoc[2] = ThrownDoc("PERMISSION_DENIED")
    /\ responses[1] = responses[2]
    /\ responses[1] = <<DatabaseError>>


\* C16: with no service-account key configured and no usable default
\* credential, a request that reaches the initialization stage leaves the
\* gateway state Failed and is answered with the init-failure 500, without
\* a store lookup.
C16_MissingCredentialFails ==
    \A r \in Requests :
        (env.key = "absent" /\ ~env.adc /\ initResult[r] # "none") =>
            /\ ~firebaseReady
            /\ firebaseError # NoError
            /\ initResult[r] = "rejected"
            /\ ~InTrace(r, "lookup")
            /\ pc[r] = "done" => responses[r] = <<ServerConfigurationError>>


\* C17: every message handed to the gateway has both platform blocks, and
\* its iOS block carries content-available, mutable-content and an alert
\* whose title and body are the message's display title and body, whichever
\* source variant built it.
C17_PlatformBlocksComplete ==
    \A r \in Requests :
        message[r] # NoMessage =>
            /\ message[r].android.priority = "high"
            /\ message[r].android.notification.channelId = "calls"
            /\ message[r].apns.payload.aps.contentAvailable = 1
            /\ message[r].apns.payload.aps.mutableContent = 1
            /\ "alert" \in DOMAIN message[r].apns.payload.aps
            /\ message[r].apns.payload.aps.alert.title = message[r].notification.title
            /\ message[r].apns.payload.aps.alert.body = message[r].notification.body


\* C18: no request emits more than one response, also when the host
\* cancelled it while it was suspended at the store lookup or at the
\* gateway send.
C18_AtMostOneResponse ==
    \A r \in Requests :
        /\ Len(responses[r]) <= 1
        /\ Occurrences(trace[r], "respond") = Len(responses[r])

\* A cancelled request whose send failed afterwards and was answered.
C18_Witness ==
    /\ cancelled[1]
    /\ pc[1] = "done"
    /\ sendResult[1].kind = "error"
    /\ Len(responses[1]) = 1


\* C19: a request rejected at the content-type check or at body validation
\* is answered 415 or 400 in the step it arrives, runs no initialization,
\* lookup or send, and leaves firebaseReady, firebaseError, the app list
\* and the call counters as they were.
C19_RejectionTouchesNothing ==
    [][\A r \in Requests :
          (/\ pc[r] = "idle"
           /\ pc'[r] # "idle"
           /\ \/ ContentTypeRejected(req'[r].contentType)
              \/ validateCallRequest(req'[r].body) # <<>>) =>
              /\ UNCHANGED globals
              /\ pc'[r] = "done"
              /\ Len(responses'[r]) = 1
              /\ responses'[r][1].status =
                    (IF ContentTypeRejected(req'[r].contentType) THEN 415 ELSE 400)
              /\ \A i \in 1..Len(trace'[r]) :
                    trace'[r][i] \in {"contentType", "validate", "respond"}]_vars

\* A 415 and a 400 were answered and the gateway is still Uninitialized.
C19_Witness ==
    /\ \E r1, r2 \in Requests :
          /\ responses[r1] = <<UnsupportedMediaType>>
          /\ Len(responses[r2]) = 1 /\ responses[r2][1].status = 400
          /\ trace[r2] = <<"contentType", "validate", "respond">>
    /\ ~firebaseReady /\ firebaseError = NoError /\ apps = 0
    /\ parseCalls = 0 /\ initializeAppCalls = 0

\* C20: firebaseReady is never true while firebaseError holds a failure.
C20_ReadyExcludesError ==
    ~(firebaseReady /\ firebaseError # NoError)

\* A failed initialization with one request answered and a later one
\* rejected from the cache: the error is stored and the flag is not set.
C20_Witness ==
    /\ env.key = "badcert"
    /\ firebaseError = "FirebaseAppError" /\ ~firebaseReady
    /\ pc[1] = "done" /\ initResult[1] = "rejected"
    /\ pc[2] = "awaitInit" /\ initResult[2] = "rejected"

====
